---- MODULE Spec2Model ----
(***************************************************************************)
(* nuuid: the 16-byte Uuid value, its text codec (parse, to_str, to_urn,   *)
(* the upper-case variants and the fmt traits), its binary model (variant, *)
(* version, the mixed-endian conversions, the field accessors) and its     *)
(* generators (new_v1 ... new_v8).                                         *)
(*                                                                         *)
(* A string is the sequence of its UTF-8 bytes (0..255), a Uuid is the     *)
(* sequence of its 16 bytes.  Rust indexes from 0, TLA+ sequences from 1:  *)
(* Rust's s[i] is s[i + 1] here.                                           *)
(***************************************************************************)
EXTENDS Integers, Sequences, FiniteSets, TLC

VARIABLES
    pc,      \* position of the calling program: start, made, failed, formatted,
             \* reparsed, recased, read
    src,     \* how uuid was obtained: "none", "bytes" (from_bytes), "parse", or the
             \* name of the constructor: from_bytes_me, parse_me, new_v1, ...
    text,    \* the string handed to parse (<<>> when src is not "parse")
    gen,     \* how text was drawn: the bytes and grammar it spells, and its mutation
    res,     \* what parse returned for text
    uuid,    \* the Uuid value held by the caller (its 16 bytes)
    prior,   \* the caller's buffer before the formatting call
    fmt,     \* the formatting call made: to_str, to_urn, ..., or a fmt spec
    out,     \* the buffer after the call, or the text the fmt trait wrote
    res2,    \* what the second parse (of out, or of the re-cased text) returned
    args,    \* the arguments of the constructor that made uuid (new_v1, ..., from_bytes_me)
    rng,     \* the caller's Rng: its seed and how many bytes of its stream are used
    call,    \* the call made on uuid after it was built: "fields" or "me"
    ret      \* what that call returned

vars == <<pc, src, text, gen, res, uuid, prior, fmt, out, res2, args, rng, call, ret>>

\* The variables of the binary model and the generators
binvars == <<args, rng, call, ret>>
\* The variables of the text codec
textvars == <<text, gen, res, prior, fmt, out, res2>>

----------------------------------------------------------------------------
(* Program constants                                                       *)

UUID_STR_LENGTH == 36
UUID_URN_LENGTH == 45
UUID_BRACED_LENGTH == 38
UUID_SIMPLE_LENGTH == 32
\* "urn:uuid:"
UUID_URN == <<117, 114, 110, 58, 117, 117, 105, 100, 58>>
UUID_URN_PREFIX == Len(UUID_URN)

\* b'-'
HYPHEN == 45
\* b'+', the sign u128::from_str_radix strips
PLUS == 43

----------------------------------------------------------------------------
(* Results                                                                 *)

Ok(b) == [tag |-> "Ok", bytes |-> b]
Err == [tag |-> "Err", bytes |-> <<>>]
Panic == [tag |-> "Panic", bytes |-> <<>>]
NoResult == [tag |-> "None", bytes |-> <<>>]

----------------------------------------------------------------------------
(* Helpers on byte strings                                                 *)

\* str::is_ascii
IsAsciiNoCheck(s) == TRUE
IsAscii(s) == \A i \in 1..Len(s) : s[i] < 128

\* str::is_char_boundary(idx), idx a 0-based byte offset
IsCharBoundary(s, idx) ==
    \/ idx = 0
    \/ idx = Len(s)
    \/ idx < Len(s) /\ ~(s[idx + 1] \in 128..191)

\* &s[start..end] on a str panics unless this holds
SliceOk(s, start, end) ==
    /\ start <= end
    /\ end <= Len(s)
    /\ IsCharBoundary(s, start)
    /\ IsCharBoundary(s, end)

\* s[start..end], 0-based, end exclusive
Slice(s, start, end) == SubSeq(s, start + 1, end)

\* dst[off..off + data.len()].copy_from_slice(data), 0-based off
WriteAt(dst, off, data) ==
    [i \in 1..Len(dst) |->
        IF i > off /\ i <= off + Len(data) THEN data[i - off] ELSE dst[i]]

\* The value of a hex digit, -1 for any other byte (both cases accepted)
HexValLowerOnly(c) ==
    IF c \in 48..57 THEN c - 48
    ELSE IF c \in 97..102 THEN c - 97 + 10
    ELSE -1
HexVal(c) ==
    IF c \in 48..57 THEN c - 48
    ELSE IF c \in 97..102 THEN c - 97 + 10
    ELSE IF c \in 65..70 THEN c - 65 + 10
    ELSE -1

\* The 16 bytes spelled by 32 nibbles, high nibble first
PackNibblesLowFirst(n) == [i \in 1..(Len(n) \div 2) |-> 16 * n[2 * i] + n[2 * i - 1]]
PackNibbles(n) == [i \in 1..(Len(n) \div 2) |-> 16 * n[2 * i - 1] + n[2 * i]]

\* u128::from_str_radix(s, 16) followed by to_be_bytes(): an optional '+',
\* then hex digits; the value is kept as its 32 nibbles, most significant
\* first (a u128 has exactly 32), so no digit string of length <= 32 overflows.
FromStrRadix16(s) ==
    IF Len(s) = 0 THEN Err
    ELSE IF Len(s) = 1 /\ s[1] \in {PLUS, HYPHEN} THEN Err
    ELSE LET digits == IF s[1] = PLUS THEN Tail(s) ELSE s
             pad == 2 * 16 - Len(digits)
         IN  IF \E i \in 1..Len(digits) : HexVal(digits[i]) < 0 THEN Err
             ELSE IF pad < 0 THEN Err
             ELSE Ok(PackNibbles(
                    [i \in 1..(2 * 16) |->
                        IF i <= pad THEN 0 ELSE HexVal(digits[i - pad])]))

\* hex_simd::decode_inplace(raw): every byte must be a hex digit
DecodeInplace(raw) ==
    IF Len(raw) % 2 # 0 THEN Err
    ELSE IF \E i \in 1..Len(raw) : HexVal(raw[i]) < 0 THEN Err
    ELSE Ok(PackNibbles([i \in 1..Len(raw) |-> HexVal(raw[i])]))

----------------------------------------------------------------------------
(* Uuid::parse                                                             *)

\* The tail of parse for the three hyphenated grammars: body is the 36
\* bytes left after the wrapper was sliced off.  The five groups are copied
\* to raw, skipping offsets 8, 13, 18 and 23, and raw is decoded in place.
ParseBody(body) ==
    LET raw0 == [i \in 1..UUID_SIMPLE_LENGTH |-> 0]
        raw1 == WriteAt(raw0, 20, Slice(body, 24, Len(body)))
        raw2 == WriteAt(raw1, 16, Slice(body, 19, 23))
        raw3 == WriteAt(raw2, 12, Slice(body, 14, 18))
        raw4 == WriteAt(raw3, 8, Slice(body, 9, 13))
        raw5 == WriteAt(raw4, 0, Slice(body, 0, 8))
        x == DecodeInplace(raw5)
    IN  IF x.tag = "Ok" /\ Len(x.bytes) = 16 THEN x ELSE Err

Parse(s) ==
    IF ~IsAscii(s) THEN Err
    ELSE IF Len(s) = UUID_URN_LENGTH THEN
        IF SliceOk(s, UUID_URN_PREFIX, Len(s))
        THEN ParseBody(Slice(s, UUID_URN_PREFIX, Len(s)))
        ELSE Panic
    ELSE IF Len(s) = UUID_BRACED_LENGTH THEN
        IF SliceOk(s, 1, Len(s) - 1)
        THEN ParseBody(Slice(s, 1, Len(s) - 1))
        ELSE Panic
    ELSE IF Len(s) = UUID_STR_LENGTH THEN ParseBody(s)
    ELSE IF Len(s) = UUID_SIMPLE_LENGTH THEN FromStrRadix16(s)
    ELSE Err

----------------------------------------------------------------------------
(* Uuid::to_str, to_urn, to_str_upper, to_urn_upper and the fmt traits     *)

\* The digits hex_simd writes for AsciiCase::Lower: "0123456789abcdef"
LowerDigits ==
    <<48, 49, 50, 51, 52, 53, 54, 55, 56, 57, 97, 98, 99, 100, 101, 102>>

\* hex_simd::encode(src, out, Lower): two digits a byte, high nibble first
HexEncodeLowFirst(bytes) ==
    [i \in 1..(2 * Len(bytes)) |->
        LET b == bytes[(i + 1) \div 2]
        IN  LowerDigits[(IF i % 2 = 1 THEN b % 16 ELSE b \div 16) + 1]]
HexEncode(bytes) ==
    [i \in 1..(2 * Len(bytes)) |->
        LET b == bytes[(i + 1) \div 2]
        IN  LowerDigits[(IF i % 2 = 1 THEN b \div 16 ELSE b % 16) + 1]]

\* str::make_ascii_uppercase
MakeAsciiUppercase(s) ==
    [i \in 1..Len(s) |-> IF s[i] \in 97..122 THEN s[i] - 32 ELSE s[i]]

\* to_str(self, buf): buf is the caller's 36 bytes, the result their new content
ToStrNoHyphens(bytes, buf) ==
    LET b1 == WriteAt(buf, 0, HexEncode(Slice(bytes, 0, 4)))
        b2 == WriteAt(b1, 9, HexEncode(Slice(bytes, 4, 6)))
        b3 == WriteAt(b2, 14, HexEncode(Slice(bytes, 6, 8)))
        b4 == WriteAt(b3, 19, HexEncode(Slice(bytes, 8, 9)))
        b5 == WriteAt(b4, 21, HexEncode(Slice(bytes, 9, 10)))
    IN  WriteAt(b5, 24, HexEncode(Slice(bytes, 10, Len(bytes))))
ToStr(bytes, buf) ==
    LET b0 == [buf EXCEPT ![8 + 1] = HYPHEN, ![13 + 1] = HYPHEN,
                          ![18 + 1] = HYPHEN, ![23 + 1] = HYPHEN]
        b1 == WriteAt(b0, 0, HexEncode(Slice(bytes, 0, 4)))
        b2 == WriteAt(b1, 9, HexEncode(Slice(bytes, 4, 6)))
        b3 == WriteAt(b2, 14, HexEncode(Slice(bytes, 6, 8)))
        b4 == WriteAt(b3, 19, HexEncode(Slice(bytes, 8, 9)))
        b5 == WriteAt(b4, 21, HexEncode(Slice(bytes, 9, 10)))
    IN  WriteAt(b5, 24, HexEncode(Slice(bytes, 10, Len(bytes))))

\* to_urn(self, buf): buf is the caller's 45 bytes
ToUrn(bytes, buf) ==
    LET b1 == WriteAt(buf, 0, UUID_URN)
    IN  WriteAt(b1, UUID_URN_PREFIX,
                ToStr(bytes, Slice(b1, UUID_URN_PREFIX, Len(b1))))

ToStrUpper(bytes, buf) == MakeAsciiUppercase(ToStr(bytes, buf))

ToUrnUpper(bytes, buf) ==
    LET s == ToUrn(bytes, buf)
    IN  WriteAt(s, UUID_URN_PREFIX,
                MakeAsciiUppercase(Slice(s, UUID_URN_PREFIX, Len(s))))

\* The zeroed local buffer of the fmt impls, [0; 36]
ZeroBuf == [i \in 1..UUID_STR_LENGTH |-> 0]

\* impl LowerHex: "{:x}" and, with the alternate flag, "{:#x}"
FmtLowerHex(bytes, alternate) ==
    (IF alternate THEN UUID_URN ELSE <<>>) \o ToStr(bytes, ZeroBuf)

\* impl UpperHex: "{:X}" and "{:#X}"
FmtUpperHexNoPrefix(bytes, alternate) == ToStrUpper(bytes, ZeroBuf)
FmtUpperHex(bytes, alternate) ==
    (IF alternate THEN UUID_URN ELSE <<>>) \o ToStrUpper(bytes, ZeroBuf)

\* impl Display: write!(f, "{:X}", self), a fresh format spec without flags
FmtDisplay(bytes) == FmtUpperHex(bytes, FALSE)

----------------------------------------------------------------------------
(* The inputs the calls are made with                                      *)

\* How many byte patterns Arr(v, k) are drawn for each first byte v
NumStrides == 1
\* How many Uuids have their texts mutated one character at a time
NumMutSeeds == 1

\* tests::RAW, 662aa7c7-7598-4d56-8bcc-a72c30f998a2
RAW == <<102, 42, 167, 199, 117, 152, 77, 86, 139, 204, 167, 44, 48, 249, 152, 162>>
NilBytes == [i \in 1..16 |-> 0]
OnesBytes == [i \in 1..16 |-> 255]

\* 16 bytes starting at v, every byte differing from its neighbours in both nibbles
Arr(v, k) == [i \in 1..16 |-> (v + (16 * k + 1) * (i - 1)) % 256]

ByteArrays ==
    {Arr(v, k) : v \in 0..255, k \in 1..NumStrides} \cup {RAW, NilBytes, OnesBytes}

TextSeeds ==
    {Arr(17 * v, k) : v \in 0..15, k \in 1..NumStrides} \cup {RAW, NilBytes, OnesBytes}

MutSeeds == {IF j = 1 THEN RAW ELSE Arr((171 * j) % 256, j) : j \in 1..NumMutSeeds}

Forms == {"hyphenated", "simple", "braced", "urn"}

\* The characters put in place of one character of a valid text: "-+0aF",
\* the neighbours of the digit and letter ranges "/:@G`g", "{} " and "x"
Palette == {45, 43, 48, 97, 70, 47, 58, 64, 71, 96, 103, 123, 125, 32, 120}

\* U+00E9 in UTF-8, a character of two bytes
WideChar == <<195, 169>>

NibbleChar(n, upper) ==
    IF n < 10 THEN 48 + n ELSE (IF upper THEN 65 ELSE 97) + (n - 10)

\* The 32 hex digits of b in string order
SimpleText(b, upper) ==
    [i \in 1..32 |->
        NibbleChar(IF i % 2 = 1 THEN b[(i + 1) \div 2] \div 16
                   ELSE b[(i + 1) \div 2] % 16, upper)]

HyphenatedText(b, upper) ==
    LET h == SimpleText(b, upper)
    IN  SubSeq(h, 1, 8) \o <<45>> \o SubSeq(h, 9, 12) \o <<45>> \o SubSeq(h, 13, 16)
        \o <<45>> \o SubSeq(h, 17, 20) \o <<45>> \o SubSeq(h, 21, 32)

TextOf(b, form, upper) ==
    CASE form = "simple" -> SimpleText(b, upper)
      [] form = "hyphenated" -> HyphenatedText(b, upper)
      [] form = "braced" -> <<123>> \o HyphenatedText(b, upper) \o <<125>>
      [] form = "urn" -> UUID_URN \o HyphenatedText(b, upper)

NoGen == [bytes |-> <<>>, form |-> "none", upper |-> FALSE, mut |-> "none", at |-> 0]

\* str::to_uppercase / to_lowercase of an ASCII string
ToUppercase(s) == [i \in 1..Len(s) |-> IF s[i] \in 97..122 THEN s[i] - 32 ELSE s[i]]
ToLowercase(s) == [i \in 1..Len(s) |-> IF s[i] \in 65..90 THEN s[i] + 32 ELSE s[i]]

\* Nothing built by a generator yet, no Rng made, no call made
NoArgs == [ctor |-> "none"]
NoRng == [seed |-> 0, used |-> 0]
NoRet == [none |-> TRUE]

----------------------------------------------------------------------------
(* The calls                                                               *)

Init ==
    /\ pc = "start"
    /\ src = "none"
    /\ text = <<>>
    /\ gen = NoGen
    /\ res = NoResult
    /\ uuid = <<>>
    /\ prior = <<>>
    /\ fmt = "none"
    /\ out = <<>>
    /\ res2 = NoResult
    /\ args = NoArgs
    /\ rng = NoRng
    /\ call = "none"
    /\ ret = NoRet

\* Uuid::from_bytes(b)
FromBytes ==
    /\ pc = "start"
    /\ \E b \in ByteArrays :
        /\ uuid' = b
        /\ src' = "bytes"
        /\ pc' = "made"
    /\ UNCHANGED <<text, gen, res, prior, fmt, out, res2>>
    /\ UNCHANGED binvars

\* Uuid::parse(t) for the string t drawn as g says
DoParse(t, g) ==
    /\ pc = "start"
    /\ text' = t
    /\ gen' = g
    /\ src' = "parse"
    /\ res' = Parse(t)
    /\ uuid' = res'.bytes
    /\ pc' = IF res'.tag = "Ok" THEN "made" ELSE "failed"
    /\ UNCHANGED <<prior, fmt, out, res2>>
    /\ UNCHANGED binvars

\* parse of one of the four texts of a Uuid, in either case
ParseText ==
    /\ pc = "start"
    /\ \E b \in TextSeeds, f \in Forms, up \in BOOLEAN :
        DoParse(TextOf(b, f, up),
                [bytes |-> b, form |-> f, upper |-> up, mut |-> "none", at |-> 0])

\* parse of such a text with one character replaced
ParseMutated ==
    /\ pc = "start"
    /\ \E b \in MutSeeds, f \in Forms, up \in BOOLEAN :
        \E p \in 1..Len(TextOf(b, f, up)), c \in Palette :
            /\ TextOf(b, f, up)[p] # c
            /\ DoParse([TextOf(b, f, up) EXCEPT ![p] = c],
                       [bytes |-> b, form |-> f, upper |-> up, mut |-> "char", at |-> p])

\* parse of such a text with two bytes replaced by one two-byte character
ParseWide ==
    /\ pc = "start"
    /\ \E b \in MutSeeds, f \in Forms, up \in BOOLEAN :
        \E p \in 1..(Len(TextOf(b, f, up)) - 1) :
            DoParse(WriteAt(TextOf(b, f, up), p - 1, WideChar),
                    [bytes |-> b, form |-> f, upper |-> up, mut |-> "wide", at |-> p])

\* parse of a proper prefix of such a text, or of the text with one more character
ParseResized ==
    /\ pc = "start"
    /\ \E b \in MutSeeds, f \in Forms, up \in BOOLEAN :
        \/ \E n \in 0..(Len(TextOf(b, f, up)) - 1) :
            DoParse(SubSeq(TextOf(b, f, up), 1, n),
                    [bytes |-> b, form |-> f, upper |-> up, mut |-> "cut", at |-> n])
        \/ \E c \in Palette :
            DoParse(TextOf(b, f, up) \o <<c>>,
                    [bytes |-> b, form |-> f, upper |-> up, mut |-> "append", at |-> c])

\* The caller's buffer before a formatting call: zeroed, or full of 0xFF
Fills == {0, 255}

\* uuid.to_str(&mut buf)
CallToStr ==
    /\ pc = "made"
    /\ \E c \in Fills :
        /\ prior' = [i \in 1..UUID_STR_LENGTH |-> c]
        /\ out' = ToStr(uuid, prior')
    /\ fmt' = "to_str"
    /\ pc' = "formatted"
    /\ UNCHANGED <<src, text, gen, res, uuid, res2>>
    /\ UNCHANGED binvars

\* uuid.to_str_upper(&mut buf)
CallToStrUpper ==
    /\ pc = "made"
    /\ \E c \in Fills :
        /\ prior' = [i \in 1..UUID_STR_LENGTH |-> c]
        /\ out' = ToStrUpper(uuid, prior')
    /\ fmt' = "to_str_upper"
    /\ pc' = "formatted"
    /\ UNCHANGED <<src, text, gen, res, uuid, res2>>
    /\ UNCHANGED binvars

\* uuid.to_urn(&mut buf)
CallToUrn ==
    /\ pc = "made"
    /\ \E c \in Fills :
        /\ prior' = [i \in 1..UUID_URN_LENGTH |-> c]
        /\ out' = ToUrn(uuid, prior')
    /\ fmt' = "to_urn"
    /\ pc' = "formatted"
    /\ UNCHANGED <<src, text, gen, res, uuid, res2>>
    /\ UNCHANGED binvars

\* uuid.to_urn_upper(&mut buf)
CallToUrnUpper ==
    /\ pc = "made"
    /\ \E c \in Fills :
        /\ prior' = [i \in 1..UUID_URN_LENGTH |-> c]
        /\ out' = ToUrnUpper(uuid, prior')
    /\ fmt' = "to_urn_upper"
    /\ pc' = "formatted"
    /\ UNCHANGED <<src, text, gen, res, uuid, res2>>
    /\ UNCHANGED binvars

\* format!(spec, uuid) for the five specs the traits serve
CallFormat ==
    /\ pc = "made"
    /\ \E spec \in {"{}", "{:X}", "{:x}", "{:#x}", "{:#X}"} :
        /\ fmt' = spec
        /\ out' = CASE spec = "{}" -> FmtDisplay(uuid)
                    [] spec = "{:X}" -> FmtUpperHex(uuid, FALSE)
                    [] spec = "{:#X}" -> FmtUpperHex(uuid, TRUE)
                    [] spec = "{:x}" -> FmtLowerHex(uuid, FALSE)
                    [] spec = "{:#x}" -> FmtLowerHex(uuid, TRUE)
    /\ prior' = <<>>
    /\ pc' = "formatted"
    /\ UNCHANGED <<src, text, gen, res, uuid, res2>>
    /\ UNCHANGED binvars

\* Uuid::parse of what the formatting call wrote
Reparse ==
    /\ pc = "formatted"
    /\ res2' = Parse(out)
    /\ pc' = "reparsed"
    /\ UNCHANGED <<src, text, gen, res, uuid, prior, fmt, out>>
    /\ UNCHANGED binvars

\* Uuid::parse of an accepted text converted to upper or to lower case
ParseRecased ==
    /\ pc = "made"
    /\ src = "parse"
    /\ \E up \in BOOLEAN :
        /\ fmt' = IF up THEN "to_uppercase" ELSE "to_lowercase"
        /\ out' = IF up THEN ToUppercase(text) ELSE ToLowercase(text)
    /\ res2' = Parse(out')
    /\ prior' = <<>>
    /\ pc' = "recased"
    /\ UNCHANGED <<src, text, gen, res, uuid>>
    /\ UNCHANGED binvars

Next ==
    \/ FromBytes
    \/ ParseText
    \/ ParseMutated
    \/ ParseWide
    \/ ParseResized
    \/ CallToStr
    \/ CallToStrUpper
    \/ CallToUrn
    \/ CallToUrnUpper
    \/ CallFormat
    \/ Reparse
    \/ ParseRecased

Spec == Init /\ [][Next]_vars

----------------------------------------------------------------------------
(* The binary model: bit operations on u8, the variant and version fields, *)
(* the mixed-endian conversions                                            *)

\* u8 & u8 and u8 | u8, bit by bit
RECURSIVE BitAnd(_, _)
BitAnd(a, b) ==
    IF a = 0 \/ b = 0 THEN 0
    ELSE (a % 2) * (b % 2) + 2 * BitAnd(a \div 2, b \div 2)

RECURSIVE BitOr(_, _)
BitOr(a, b) ==
    IF a = 0 THEN b
    ELSE IF b = 0 THEN a
    ELSE (IF a % 2 = 1 \/ b % 2 = 1 THEN 1 ELSE 0) + 2 * BitOr(a \div 2, b \div 2)

\* u8 >> n, and u8 << n, which drops the bits shifted out of the byte
Shr(a, n) == a \div (2 ^ n)
Shl(a, n) == (a * (2 ^ n)) % 256

\* `ver as u8`: the discriminants of enum Version, counted from Nil = 0
\* (Database, UnixTime and Vendor exist under feature experimental_uuid)
VersionAsU8(ver) ==
    CASE ver = "Nil" -> 0
      [] ver = "Time" -> 1
      [] ver = "Dce" -> 2
      [] ver = "Md5" -> 3
      [] ver = "Random" -> 4
      [] ver = "Sha1" -> 5
      [] ver = "Database" -> 6
      [] ver = "UnixTime" -> 7
      [] ver = "Vendor" -> 8
      [] ver = "Reserved" -> 9

\* set_version keeping the whole of byte 6 under the new nibble
set_version_unmasked(u, ver) ==
    [u EXCEPT ![7] = BitOr(u[7], Shl(VersionAsU8(ver), 4))]

\* Uuid::set_version
set_version(u, ver) ==
    [u EXCEPT ![7] = BitOr(BitAnd(u[7], 15), Shl(VersionAsU8(ver), 4))]

\* set_variant keeping bit 5 of byte 8 for Variant::Microsoft
set_variant_two_bits(u, ver) ==
    LET byte == u[9] IN
    [u EXCEPT ![9] =
        CASE ver = "Ncs" -> BitAnd(byte, 127)
          [] ver = "Rfc4122" -> BitOr(BitAnd(byte, 63), 128)
          [] ver = "Microsoft" -> BitOr(BitAnd(byte, 63), 192)
          [] ver = "Reserved" -> BitOr(byte, 224)]

\* Uuid::set_variant
set_variant(u, ver) ==
    LET byte == u[9] IN
    [u EXCEPT ![9] =
        CASE ver = "Ncs" -> BitAnd(byte, 127)
          [] ver = "Rfc4122" -> BitOr(BitAnd(byte, 63), 128)
          [] ver = "Microsoft" -> BitOr(BitAnd(byte, 31), 192)
          [] ver = "Reserved" -> BitOr(byte, 224)]

\* swap_endian turning time_low by one byte where the code reverses it
swap_endian_rotated(u) ==
    LET s1 == [u EXCEPT ![1] = u[2], ![2] = u[3], ![3] = u[4], ![4] = u[1]]
        s2 == [s1 EXCEPT ![5] = s1[6], ![6] = s1[5]]
    IN  [s2 EXCEPT ![7] = s2[8], ![8] = s2[7]]

\* Uuid::swap_endian: the three groups of assignments, in the code's order
swap_endian(u) ==
    LET s1 == [u EXCEPT ![1] = u[4], ![2] = u[3], ![3] = u[2], ![4] = u[1]]
        s2 == [s1 EXCEPT ![5] = s1[6], ![6] = s1[5]]
    IN  [s2 EXCEPT ![7] = s2[8], ![8] = s2[7]]

\* Uuid::to_bytes
to_bytes(u) == u

\* Uuid::from_bytes_me
from_bytes_me(bytes) == swap_endian(bytes)

\* Uuid::to_bytes_me
to_bytes_me(u) == to_bytes(swap_endian(u))

\* parse_me without the swap
parse_me_unswapped(s) == Parse(s)

\* Uuid::parse_me: Result::map leaves an Err as it is
parse_me(s) ==
    LET r == Parse(s) IN
    IF r.tag = "Ok" THEN Ok(swap_endian(r.bytes)) ELSE r

\* variant reading the top two bits only
variant_two_bits(u) ==
    LET byte == BitAnd(Shr(u[9], 6), 3)
        msb0 == BitAnd(Shr(byte, 1), 1) = 1
        msb1 == BitAnd(byte, 1) = 1
    IN  IF ~msb0 THEN "Ncs"
        ELSE IF ~msb1 THEN "Rfc4122"
        ELSE "Microsoft"

\* Uuid::variant
variant(u) ==
    LET byte == BitAnd(Shr(u[9], 5), 7)
        msb0 == BitAnd(Shr(byte, 2), 1) = 1
        msb1 == BitAnd(Shr(byte, 1), 1) = 1
        msb2 == BitAnd(byte, 1) = 1
    IN  IF ~msb0 THEN "Ncs"
        ELSE IF ~msb1 THEN "Rfc4122"
        ELSE IF ~msb2 THEN "Microsoft"
        ELSE "Reserved"

\* ReprUuid::variant (types.rs), whose enum calls Rfc4122 Rfc
repr_variant(arr) ==
    LET byte == Shr(arr[9], 4)
        msb0 == BitAnd(Shr(byte, 3), 1) = 1
        msb1 == BitAnd(BitAnd(Shr(byte, 2), 1), 1) = 1
        msb2 == BitAnd(BitAnd(Shr(byte, 1), 1), 1) = 1
    IN  IF ~msb0 THEN "Ncs"
        ELSE IF ~msb1 THEN "Rfc"
        ELSE IF ~msb2 THEN "Microsoft"
        ELSE "Reserved"

\* The match of Uuid::version on the four bits, first arm that matches
VersionOfBits(b7, b6, b5, b4) ==
    CASE ~b7 /\ ~b6 /\ ~b5 /\ ~b4 -> "Nil"
      [] ~b7 /\ ~b6 /\ ~b5 /\ b4 -> "Time"
      [] ~b7 /\ ~b6 /\ b5 /\ ~b4 -> "Dce"
      [] ~b7 /\ ~b6 /\ b5 /\ b4 -> "Md5"
      [] ~b7 /\ b6 /\ ~b5 /\ ~b4 -> "Random"
      [] ~b7 /\ b6 /\ ~b5 /\ b4 -> "Sha1"
      [] ~b7 /\ b6 /\ b5 /\ ~b4 -> "Database"
      [] ~b7 /\ b6 /\ b5 /\ b4 -> "UnixTime"
      [] b7 /\ ~b6 /\ ~b5 /\ ~b4 -> "Vendor"
      [] OTHER -> "Reserved"

\* Uuid::version built without feature experimental_uuid: no arm for 6, 7, 8
version_stable(u) ==
    LET v == VersionOfBits(BitAnd(Shr(u[7], 7), 1) = 1, BitAnd(Shr(u[7], 6), 1) = 1,
                           BitAnd(Shr(u[7], 5), 1) = 1, BitAnd(Shr(u[7], 4), 1) = 1)
    IN  IF v \in {"Database", "UnixTime", "Vendor"} THEN "Reserved" ELSE v

\* Uuid::version, built with feature experimental_uuid
version(u) ==
    VersionOfBits(BitAnd(Shr(u[7], 7), 1) = 1, BitAnd(Shr(u[7], 6), 1) = 1,
                  BitAnd(Shr(u[7], 5), 1) = 1, BitAnd(Shr(u[7], 4), 1) = 1)

\* ReprUuid::version (types.rs), whose enum calls Nil Unused and Time Gregorian
repr_version(arr) ==
    LET byte == Shr(arr[7], 4) IN
    CASE byte = 0 -> "Unused"
      [] byte = 1 -> "Gregorian"
      [] byte = 2 -> "Dce"
      [] byte = 3 -> "Md5"
      [] byte = 4 -> "Random"
      [] byte = 5 -> "Sha1"
      [] byte = 6 -> "Database"
      [] byte = 7 -> "UnixTime"
      [] byte = 8 -> "Vendor"
      [] OTHER -> "Reserved"

----------------------------------------------------------------------------
(* Integers wider than a byte.  A u64 is the sequence of its 16 hex digits *)
(* (0..15), most significant first; a u16 is a number in 0..65535.         *)

\* u64::to_be_bytes: 8 bytes, most significant first
u64_to_be_bytes(x) == PackNibbles(x)

\* u64::from_be_bytes
u64_from_be_bytes(b) ==
    [i \in 1..16 |-> IF i % 2 = 1 THEN b[(i + 1) \div 2] \div 16 ELSE b[i \div 2] % 16]

\* u64 << n for n a multiple of 4: the digits move up n / 4 places, the ones
\* moved past the top are dropped, zeros come in at the bottom
u64_shl(x, n) ==
    [i \in 1..16 |-> IF i + n \div 4 <= 16 THEN x[i + n \div 4] ELSE 0]

\* u16::to_be_bytes
u16_to_be_bytes(c) == <<c \div 256, c % 256>>

\* u16::from_be_bytes
u16_from_be_bytes(b) == 256 * b[1] + b[2]

----------------------------------------------------------------------------
(* The field accessors                                                     *)

\* timestamp reading time_low before time_mid and time_hi
timestamp_low_first(u) ==
    u64_from_be_bytes(<<u[1], u[2], u[3], u[4], u[5], u[6], BitAnd(u[7], 15), u[8]>>)

\* Uuid::timestamp: the arm for Version::Database and the default arm
timestamp(u) ==
    IF version(u) = "Database"
    THEN u64_from_be_bytes(<<BitAnd(u[7], 15), u[8], u[5], u[6], u[1], u[2], u[3], u[4]>>)
    ELSE u64_from_be_bytes(<<BitAnd(u[7], 15), u[8], u[5], u[6], u[1], u[2], u[3], u[4]>>)

\* Uuid::clock_sequence
clock_sequence(u) == u16_from_be_bytes(<<BitAnd(u[9], 63), u[10]>>)

\* Uuid::node
node(u) == <<u[11], u[12], u[13], u[14], u[15], u[16]>>

\* The two byte orders a target can have (cfg target_endian)
Endians == {"little", "big"}

\* is_nil looking at the first byte in memory only
is_nil_first_byte(u, target_endian) == u[1] = 0

\* Uuid::is_nil: u128::from_ne_bytes(self.0) == 0, the u128 as its 32 hex
\* digits, most significant first; from_ne_bytes takes the bytes in the
\* order of the target
is_nil(u, target_endian) ==
    LET be == IF target_endian = "big" THEN u ELSE [i \in 1..16 |-> u[17 - i]]
        x == [i \in 1..32 |-> IF i % 2 = 1 THEN be[(i + 1) \div 2] \div 16
                               ELSE be[i \div 2] % 16]
    IN  x = [i \in 1..32 |-> 0]

\* #[derive(Default)] on struct Uuid(Bytes): the default of [u8; 16]
UuidDefault == [i \in 1..16 |-> 0]

\* Uuid::max of lib.rs: Uuid([1; 16])
max == [i \in 1..16 |-> 1]

----------------------------------------------------------------------------
(* imp::const_hex_decode                                                   *)

\* What const_get_unchecked(bytes, idx) finds when idx is bytes.len(): the
\* read is outside the slice, so the byte is whatever the build put there,
\* or the read faults (in a const context the evaluation is aborted)
FAULT == -1
Fault == [tag |-> "Fault", bytes |-> <<>>]

\* The loop of const_hex_decode from the state st = (i, i_out, out) on;
\* past is the outcome of a read at bytes.len().  Besides the result the
\* run keeps the indexes read unchecked, the indexes of out written and
\* the number of digit pairs decoded.
RECURSIVE const_hex_decode_loop(_, _, _)
const_hex_decode_loop(bytes, past, st) ==
    IF ~(st.i < Len(bytes)) THEN [st EXCEPT !.res = Ok(st.out)]
    ELSE
        LET b == bytes[st.i + 1]
            outside == ~(st.i + 1 < Len(bytes))
            b2 == IF outside THEN past ELSE bytes[st.i + 2]
            rd == [st EXCEPT !.reads = @ \cup {st.i + 1}]
        IN  IF outside /\ past = FAULT THEN [rd EXCEPT !.res = Fault]
            ELSE IF b = HYPHEN THEN
                const_hex_decode_loop(bytes, past, [rd EXCEPT !.i = @ + 1])
            ELSE IF HexVal(b) < 0 THEN [rd EXCEPT !.res = Err]
            ELSE IF HexVal(b2) < 0 THEN [rd EXCEPT !.res = Err]
            ELSE IF st.i_out < 16 THEN
                const_hex_decode_loop(bytes, past,
                    [rd EXCEPT !.i = @ + 2,
                               !.out[st.i_out + 1] = BitOr(Shl(HexVal(b), 4), HexVal(b2)),
                               !.writes = @ \cup {st.i_out},
                               !.i_out = @ + 1,
                               !.pairs = @ + 1])
            ELSE
                const_hex_decode_loop(bytes, past,
                    [rd EXCEPT !.i = @ + 2, !.pairs = @ + 1])

\* const_hex_decode(bytes) for bytes of length 32 or 36, with its trace
const_hex_decode_run(bytes, past) ==
    const_hex_decode_loop(bytes, past,
        [i |-> 0, i_out |-> 0, out |-> [k \in 1..16 |-> 0],
         reads |-> {}, writes |-> {}, pairs |-> 0, res |-> NoResult])

\* const_hex_decode refusing every hyphen
const_hex_decode_no_hyphen(bytes, past) ==
    IF \E k \in 1..Len(bytes) : bytes[k] = HYPHEN THEN Err
    ELSE const_hex_decode_run(bytes, past).res

\* const_hex_decode(bytes): Ok(out) or Err(ParseUuidError)
const_hex_decode(bytes, past) == const_hex_decode_run(bytes, past).res

\* uuid!(s): the Uuid of the bytes const_hex_decode(s) gives, evaluated at
\* compile time; an Err stops the build
uuid_macro(s, past) == const_hex_decode(s, past)

----------------------------------------------------------------------------
(* MD5 (RFC 1321) and SHA-1 (FIPS 180), the hashes behind Md5 and Sha1 of  *)
(* the md5 and sha1 crates.  A 32-bit word is the pair <<hi, lo>> of its   *)
(* 16-bit halves, each in 0..65535, so that no sum leaves the integers.    *)

\* u16 ^ u16, bit by bit
RECURSIVE BitXor(_, _)
BitXor(a, b) ==
    IF a = 0 THEN b
    ELSE IF b = 0 THEN a
    ELSE ((a + b) % 2) + 2 * BitXor(a \div 2, b \div 2)

\* Wrapping addition, and the bitwise operations, of 32-bit words
Add32(a, b) ==
    LET lo == a[2] + b[2]
        hi == a[1] + b[1] + (lo \div 65536)
    IN  <<hi % 65536, lo % 65536>>
And32(a, b) == <<BitAnd(a[1], b[1]), BitAnd(a[2], b[2])>>
Or32(a, b) == <<BitOr(a[1], b[1]), BitOr(a[2], b[2])>>
Xor32(a, b) == <<BitXor(a[1], b[1]), BitXor(a[2], b[2])>>
Not32(a) == <<65535 - a[1], 65535 - a[2]>>

\* rotate_left(s) of a 32-bit word, 0 <= s < 32
Rotl32(a, s) ==
    LET x == IF s >= 16 THEN <<a[2], a[1]>> ELSE a
        r == s % 16
    IN  <<((x[1] * (2 ^ r)) % 65536) + (x[2] \div (2 ^ (16 - r))),
          ((x[2] * (2 ^ r)) % 65536) + (x[1] \div (2 ^ (16 - r)))>>

\* x >> (8 * k), one byte at a time
RECURSIVE ShrBytes(_, _)
ShrBytes(x, k) == IF k <= 0 THEN x ELSE ShrBytes(x \div 256, k - 1)

\* The message padded to whole 64-byte blocks: 0x80, zeros, and the length
\* in bits as 8 bytes, least significant first for MD5, most for SHA-1
HashPad(data, lengthLittleEndian) ==
    LET n == Len(data)
        zeros == (119 - (n % 64)) % 64
        bits == [i \in 1..8 |-> IF i = 1 THEN (n % 32) * 8
                                ELSE ShrBytes(n \div 32, i - 2) % 256]
    IN  data \o <<128>> \o [i \in 1..zeros |-> 0]
        \o (IF lengthLittleEndian THEN bits ELSE [i \in 1..8 |-> bits[9 - i]])

\* The sines of MD5: floor(2^32 * abs(sin(i))) for i = 1..64
Md5K ==
    <<
      <<55146, 42104>>, <<59591, 46934>>, <<9248, 28891>>, <<49597, 52974>>,
      <<62844, 4015>>, <<18311, 50730>>, <<43056, 17939>>, <<64838, 38145>>,
      <<27008, 39128>>, <<35652, 63407>>, <<65535, 23473>>, <<35164, 55230>>,
      <<27536, 4386>>, <<64920, 29075>>, <<42617, 17294>>, <<18868, 2081>>,
      <<63006, 9570>>, <<49216, 45888>>, <<9822, 23121>>, <<59830, 51114>>,
      <<54831, 4189>>, <<580, 5203>>, <<55457, 59009>>, <<59347, 64456>>,
      <<8673, 52710>>, <<49975, 2006>>, <<62677, 3463>>, <<17754, 5357>>,
      <<43491, 59653>>, <<64751, 41976>>, <<26479, 729>>, <<36138, 19594>>,
      <<65530, 14658>>, <<34673, 63105>>, <<28061, 24866>>, <<64997, 14348>>,
      <<42174, 59972>>, <<19422, 53161>>, <<63163, 19296>>, <<48831, 48240>>,
      <<10395, 32454>>, <<60065, 10234>>, <<54511, 12421>>, <<1160, 7429>>,
      <<55764, 53305>>, <<59099, 39397>>, <<8098, 31992>>, <<50348, 22117>>,
      <<62505, 8772>>, <<17194, 65431>>, <<43924, 9127>>, <<64659, 41017>>,
      <<25947, 22979>>, <<36620, 52370>>, <<65519, 62589>>, <<34180, 24017>>,
      <<28584, 32335>>, <<65068, 59104>>, <<41729, 17172>>, <<19976, 4513>>,
      <<63315, 32386>>, <<48442, 62005>>, <<10967, 53947>>, <<60294, 54161>>
    >>

\* The rotation of each of the 64 steps of MD5
Md5S ==
    <<
      7, 12, 17, 22, 7, 12, 17, 22, 7, 12, 17, 22, 7, 12, 17, 22,
      5, 9, 14, 20, 5, 9, 14, 20, 5, 9, 14, 20, 5, 9, 14, 20,
      4, 11, 16, 23, 4, 11, 16, 23, 4, 11, 16, 23, 4, 11, 16, 23,
      6, 10, 15, 21, 6, 10, 15, 21, 6, 10, 15, 21, 6, 10, 15, 21
    >>

\* Steps k..63 of MD5 on the state p = <<a, b, c, d>> with message words m
RECURSIVE Md5Steps(_, _, _)
Md5Steps(p, m, k) ==
    IF k = 64 \/ Len(p) # 4 \/ Len(m) # 16 THEN p
    ELSE LET a == p[1]
             b == p[2]
             c == p[3]
             d == p[4]
             f == IF k < 16 THEN Or32(And32(b, c), And32(Not32(b), d))
                  ELSE IF k < 32 THEN Or32(And32(d, b), And32(Not32(d), c))
                  ELSE IF k < 48 THEN Xor32(Xor32(b, c), d)
                  ELSE Xor32(c, Or32(b, Not32(d)))
             g == IF k < 16 THEN k
                  ELSE IF k < 32 THEN (5 * k + 1) % 16
                  ELSE IF k < 48 THEN (3 * k + 5) % 16
                  ELSE (7 * k) % 16
             sum == Add32(Add32(Add32(a, f), Md5K[k + 1]), m[g + 1])
         IN  Md5Steps(<<d, Add32(b, Rotl32(sum, Md5S[k + 1])), b, c>>, m, k + 1)

\* One 64-byte block folded into the state of MD5; its 16 words are read
\* least significant byte first
Md5Compress(state, block) ==
    LET m == [j \in 1..16 |-> <<256 * block[4 * j] + block[4 * j - 1],
                                256 * block[4 * j - 2] + block[4 * j - 3]>>]
        last == Md5Steps(state, m, 0)
    IN  <<Add32(state[1], last[1]), Add32(state[2], last[2]),
          Add32(state[3], last[3]), Add32(state[4], last[4])>>

\* The initial state of MD5
Md5Init == <<<<26437, 8961>>, <<61389, 43913>>, <<39098, 56574>>, <<4146, 21622>>>>

\* Every 64-byte block of the padded message folded into the state
RECURSIVE Md5Blocks(_, _)
Md5Blocks(state, padded) ==
    IF Len(padded) = 0 \/ Len(state) # 4 THEN state
    ELSE Md5Blocks(Md5Compress(state, SubSeq(padded, 1, 64)),
                   SubSeq(padded, 65, Len(padded)))

\* MD5 writing each word of its state most significant byte first
Md5WordsMsbFirst(data) ==
    LET h == Md5Blocks(Md5Init, HashPad(data, TRUE))
    IN  [i \in 1..16 |->
            LET word == h[(i - 1) \div 4 + 1]
                at == (i - 1) % 4
            IN  IF at = 0 THEN word[1] \div 256
                ELSE IF at = 1 THEN word[1] % 256
                ELSE IF at = 2 THEN word[2] \div 256
                ELSE word[2] % 256]

\* Md5::new, update ... update, finalize: the 16 bytes of the MD5 of data,
\* each word of the state least significant byte first
Md5(data) ==
    LET h == Md5Blocks(Md5Init, HashPad(data, TRUE))
    IN  [i \in 1..16 |->
            LET word == h[(i - 1) \div 4 + 1]
                at == (i - 1) % 4
            IN  IF at = 0 THEN word[2] % 256
                ELSE IF at = 1 THEN word[2] \div 256
                ELSE IF at = 2 THEN word[1] % 256
                ELSE word[1] \div 256]

\* The 80 words of the message schedule of SHA-1, from the 16 of the block
RECURSIVE Sha1Schedule(_)
Sha1Schedule(w) ==
    IF Len(w) = 80 THEN w
    ELSE LET t == Len(w) + 1
         IN  Sha1Schedule(Append(w, Rotl32(Xor32(Xor32(w[t - 3], w[t - 8]),
                                                 Xor32(w[t - 14], w[t - 16])), 1)))

\* Steps t..79 of SHA-1 on the state p = <<a, b, c, d, e>> with schedule w
RECURSIVE Sha1Steps(_, _, _)
Sha1Steps(p, w, t) ==
    IF t = 80 \/ Len(p) # 5 \/ Len(w) # 80 THEN p
    ELSE LET a == p[1]
             b == p[2]
             c == p[3]
             d == p[4]
             e == p[5]
             f == IF t < 20 THEN Or32(And32(b, c), And32(Not32(b), d))
                  ELSE IF t < 40 THEN Xor32(Xor32(b, c), d)
                  ELSE IF t < 60 THEN Or32(Or32(And32(b, c), And32(b, d)), And32(c, d))
                  ELSE Xor32(Xor32(b, c), d)
             k == IF t < 20 THEN <<23170, 31129>>
                  ELSE IF t < 40 THEN <<28377, 60321>>
                  ELSE IF t < 60 THEN <<36635, 48348>>
                  ELSE <<51810, 49622>>
             sum == Add32(Add32(Add32(Add32(Rotl32(a, 5), f), e), k), w[t + 1])
         IN  Sha1Steps(<<sum, a, Rotl32(b, 30), c, d>>, w, t + 1)

\* One 64-byte block folded into the state of SHA-1; its 16 words are read
\* most significant byte first
Sha1Compress(state, block) ==
    LET w == Sha1Schedule([t \in 1..16 |->
                               <<256 * block[4 * t - 3] + block[4 * t - 2],
                                 256 * block[4 * t - 1] + block[4 * t]>>])
        last == Sha1Steps(state, w, 0)
    IN  <<Add32(state[1], last[1]), Add32(state[2], last[2]),
          Add32(state[3], last[3]), Add32(state[4], last[4]),
          Add32(state[5], last[5])>>

\* The initial state of SHA-1
Sha1Init ==
    <<<<26437, 8961>>, <<61389, 43913>>, <<39098, 56574>>, <<4146, 21622>>,
      <<50130, 57840>>>>

\* Every 64-byte block of the padded message folded into the state
RECURSIVE Sha1Blocks(_, _)
Sha1Blocks(state, padded) ==
    IF Len(padded) = 0 \/ Len(state) # 5 THEN state
    ELSE Sha1Blocks(Sha1Compress(state, SubSeq(padded, 1, 64)),
                    SubSeq(padded, 65, Len(padded)))

\* Sha1::new, update ... update, finalize: the 20 bytes of the SHA-1 of
\* data, each word of the state most significant byte first
Sha1(data) ==
    LET h == Sha1Blocks(Sha1Init, HashPad(data, FALSE))
    IN  [i \in 1..20 |->
            LET word == h[(i - 1) \div 4 + 1]
                at == (i - 1) % 4
            IN  IF at = 0 THEN word[1] \div 256
                ELSE IF at = 1 THEN word[1] % 256
                ELSE IF at = 2 THEN word[2] \div 256
                ELSE word[2] % 256]

----------------------------------------------------------------------------
(* ChaCha20 as rand_chacha's ChaChaRng computes it                         *)

\* "expand 32-byte k" as four words, least significant byte first
ChaChaConstants ==
    <<<<24944, 30821>>, <<13088, 25710>>, <<31074, 11570>>, <<27424, 25972>>>>

\* The quarter round on the words a, b, c, d (from 1) of the 16-word state s
QuarterRound(s, a, b, c, d) ==
    LET a1 == Add32(s[a], s[b])
        d1 == Rotl32(Xor32(s[d], a1), 16)
        c1 == Add32(s[c], d1)
        b1 == Rotl32(Xor32(s[b], c1), 12)
        a2 == Add32(a1, b1)
        d2 == Rotl32(Xor32(d1, a2), 8)
        c2 == Add32(c1, d2)
        b2 == Rotl32(Xor32(b1, c2), 7)
    IN  [s EXCEPT ![a] = a2, ![b] = b2, ![c] = c2, ![d] = d2]

\* The words of the four column rounds and the four diagonal rounds
ChaChaQuarters ==
    <<<<1, 5, 9, 13>>, <<2, 6, 10, 14>>, <<3, 7, 11, 15>>, <<4, 8, 12, 16>>,
      <<1, 6, 11, 16>>, <<2, 7, 12, 13>>, <<3, 8, 9, 14>>, <<4, 5, 10, 15>>>>

\* The quarter rounds k, k + 1, ... of the 80 that make the 20 rounds
RECURSIVE ChaChaRounds(_, _)
ChaChaRounds(s, k) ==
    IF k = 80 \/ Len(s) # 16 THEN s
    ELSE LET q == ChaChaQuarters[(k % 8) + 1]
         IN  ChaChaRounds(QuarterRound(s, q[1], q[2], q[3], q[4]), k + 1)

\* The 64 bytes of block `counter` of the stream of ChaChaRng::from_seed(seed):
\* the key is the seed, the stream id is 0, the words leave least
\* significant byte first
ChaChaBlock(seed, counter) ==
    LET key == [j \in 1..8 |-> <<256 * seed[4 * j] + seed[4 * j - 1],
                                 256 * seed[4 * j - 2] + seed[4 * j - 3]>>]
        init == ChaChaConstants \o key
                \o <<<<counter \div 65536, counter % 65536>>, <<0, 0>>, <<0, 0>>, <<0, 0>>>>
        last == ChaChaRounds(init, 0)
    IN  [i \in 1..64 |->
            LET word == Add32(init[(i - 1) \div 4 + 1], last[(i - 1) \div 4 + 1])
                at == (i - 1) % 4
            IN  IF at = 0 THEN word[2] % 256
                ELSE IF at = 1 THEN word[2] \div 256
                ELSE IF at = 2 THEN word[1] % 256
                ELSE word[1] \div 256]

----------------------------------------------------------------------------
(* The generators                                                          *)

\* An Rng made by Rng::from_seed(seed) that has given out `used` bytes
RngFromSeed(seed) == [seed |-> seed, used |-> 0]

\* Byte i (from 1) of the ChaCha stream of a seed
KeyStream(seed, i) == ChaChaBlock(seed, (i - 1) \div 64)[((i - 1) % 64) + 1]

\* The n bytes of the stream of a seed that follow its first pos bytes,
\* each taken from the 64-byte block it lies in
RECURSIVE StreamFrom(_, _, _)
StreamFrom(seed, pos, n) ==
    IF n <= 0 THEN <<>>
    ELSE LET at == pos % 64
             take == IF n < 64 - at THEN n ELSE 64 - at
         IN  SubSeq(ChaChaBlock(seed, pos \div 64), at + 1, at + take)
             \o StreamFrom(seed, pos + take, n - take)

\* fill_bytes leaving the Rng where it was
fill_bytes_in_place(r, n) ==
    [dest |-> StreamFrom(r.seed, r.used, n), rng |-> r]

\* Rng::fill_bytes: the next n bytes of the stream, and the Rng after.  The
\* stream is consumed in whole 32-bit words: what is left of the last word
\* touched is dropped.
fill_bytes(r, n) ==
    [dest |-> StreamFrom(r.seed, r.used, n),
     rng |-> [r EXCEPT !.used = r.used + 4 * ((n + 3) \div 4)]]

\* Uuid::new_v4_rng: the Uuid, and the caller's Rng after the call
new_v4_rng(r) ==
    LET f == fill_bytes(r, 16) IN
    [uuid |-> set_version(set_variant(f.dest, "Rfc4122"), "Random"), rng |-> f.rng]

\* new_v3 hashing the name before the namespace
new_v3_name_first(namespace, name) ==
    set_variant(set_version(Md5(name \o to_bytes(namespace)), "Md5"), "Rfc4122")

\* Uuid::new_v3
new_v3(namespace, name) ==
    set_variant(set_version(Md5(to_bytes(namespace) \o name), "Md5"), "Rfc4122")

\* Uuid::new_v5: the first 16 of the 20 bytes
new_v5(namespace, name) ==
    set_variant(set_version(SubSeq(Sha1(to_bytes(namespace) \o name), 1, 16), "Sha1"),
                "Rfc4122")

\* new_v1 with time_mid before time_low
new_v1_mid_first(ts, c, n) ==
    LET t == u64_to_be_bytes(ts)
        counter == u16_to_be_bytes(c)
    IN  <<t[3], t[4], t[5], t[6], t[7], t[8],
          BitOr(BitAnd(t[1], 15), Shl(1, 4)), t[2],
          BitOr(BitAnd(counter[1], 63), 128), counter[2],
          n[1], n[2], n[3], n[4], n[5], n[6]>>

\* Uuid::new_v1
new_v1(ts, c, n) ==
    LET t == u64_to_be_bytes(ts)
        counter == u16_to_be_bytes(c)
    IN  <<t[5], t[6], t[7], t[8], t[3], t[4],
          BitOr(BitAnd(t[1], 15), Shl(1, 4)), t[2],
          BitOr(BitAnd(counter[1], 63), 128), counter[2],
          n[1], n[2], n[3], n[4], n[5], n[6]>>

\* Uuid::new_v6
new_v6(ts, c, n) ==
    LET t == u64_to_be_bytes(u64_shl(ts, 4))
        counter == u16_to_be_bytes(c)
    IN  <<t[1], t[2], t[3], t[4], t[5], t[6],
          BitOr(Shr(t[7], 4), Shl(6, 4)), t[8],
          BitOr(BitAnd(counter[1], 63), 128), counter[2],
          n[1], n[2], n[3], n[4], n[5], n[6]>>

\* Uuid::new_v7
new_v7(ts, ra, rb) ==
    LET t == u64_to_be_bytes(u64_shl(ts, 16))
        rand_a == u16_to_be_bytes(ra)
        rand_b == u64_to_be_bytes(rb)
    IN  <<t[1], t[2], t[3], t[4], t[5], t[6],
          BitOr(BitAnd(rand_a[1], 15), Shl(7, 4)), rand_a[2],
          BitOr(BitAnd(rand_b[1], 63), 128), rand_b[2], rand_b[3], rand_b[4],
          rand_b[5], rand_b[6], rand_b[7], rand_b[8]>>

\* new_v8 that sets the version only
new_v8_version_only(bytes) == set_version(bytes, "Vendor")

\* Uuid::new_v8
new_v8(bytes) == set_version(set_variant(bytes, "Rfc4122"), "Vendor")

----------------------------------------------------------------------------
(* The inputs of the binary model and the generators                       *)

\* How many Uuids an Rng may have given out before the call
MaxPriorUuids == 2

\* 16 bytes whose fields time_low, time_mid and time_hi_and_version read
\* the same in both byte orders exactly where p1, p2, p3 say so
PalArr(p1, p2, p3) ==
    <<16, 32, IF p1 THEN 32 ELSE 48, IF p1 THEN 16 ELSE 64,
      80, IF p2 THEN 80 ELSE 96,
      112, IF p3 THEN 112 ELSE 128,
      129, 130, 131, 132, 133, 134, 135, 136>>

\* ... and one whose time_low has equal ends around an unequal middle
HalfPalArr == <<16, 32, 48, 16, 80, 80, 112, 112, 129, 130, 131, 132, 133, 134, 135, 136>>

BinArrays ==
    ByteArrays \cup {PalArr(p1, p2, p3) : p1, p2, p3 \in BOOLEAN} \cup {HalfPalArr}

\* tests::time: 138788330336896890 = 0x01ED134048B3477A
TicksV1 == <<0, 1, 14, 13, 1, 3, 4, 0, 4, 8, 11, 3, 4, 7, 7, 10>>
\* tests::new_v6: 138648505420000000 = 0x01EC9414C232AB00
TicksV6 == <<0, 1, 14, 12, 9, 4, 1, 4, 12, 2, 3, 2, 10, 11, 0, 0>>
\* tests::new_v7: 0x17F22E279B0 and 0x18C4DC0C0C07398F
UnixTsV7 == <<0, 0, 0, 0, 0, 1, 7, 15, 2, 2, 14, 2, 7, 9, 11, 0>>
RandBV7 == <<1, 8, 12, 4, 13, 12, 0, 12, 0, 12, 0, 7, 3, 9, 8, 15>>

\* A u64 whose top digit is v, every digit differing from its neighbours
U64Arr(v, k) == [i \in 1..16 |-> (v + (2 * k + 1) * (i - 1)) % 16]

U64Values ==
    {U64Arr(v, k) : v \in 0..15, k \in 1..NumStrides}
    \cup {[i \in 1..16 |-> 0], [i \in 1..16 |-> 15], TicksV1, TicksV6, UnixTsV7}

\* tests::time and tests::new_v6 use 8648 and 13256, tests::new_v7 0xCC3;
\* 0x3FFF and 0x4000 are the two sides of the 14 bits kept, 0xC123 and
\* 0xFFFF have the two bits above them set
U16Values == {0, 8648, 13256, 3267, 16383, 16384, 49443, 65535}

\* b"world!" of tests::time and the node of tests::new_v6
Nodes == {<<119, 111, 114, 108, 100, 33>>, <<158, 107, 222, 206, 216, 70>>}

RandBValues == {RandBV7, U64Arr(3, 1), U64Arr(12, 2), [i \in 1..16 |-> 15]}

NAMESPACE_DNS == <<107, 167, 184, 16, 157, 173, 17, 209, 128, 180, 0, 192, 79, 212, 48, 200>>
NAMESPACE_OID == <<107, 167, 184, 18, 157, 173, 17, 209, 128, 180, 0, 192, 79, 212, 48, 200>>
NAMESPACE_URL == <<107, 167, 184, 17, 157, 173, 17, 209, 128, 180, 0, 192, 79, 212, 48, 200>>
NAMESPACE_X500 == <<107, 167, 184, 20, 157, 173, 17, 209, 128, 180, 0, 192, 79, 212, 48, 200>>

\* "6ba7b810-9dad-11d1-80b4-00c04fd430c8", the argument of uuid! in defs.rs
NamespaceDnsText ==
    <<
      54, 98, 97, 55, 98, 56, 49, 48, 45, 57, 100, 97, 100, 45, 49, 49, 100,
      49, 45, 56, 48, 98, 52, 45, 48, 48, 99, 48, 52, 102, 100, 52, 51, 48,
      99, 56
    >>

\* The outcomes of a read one byte past the input: a fault, or any byte
PastOutcomes == {FAULT} \cup (0..255)

\* The outcomes to draw from for a call of const_hex_decode(bytes): those of
\* the read at bytes.len() if the call makes that read, none to choose
\* between if it does not
PastFor(bytes) ==
    IF const_hex_decode_run(bytes, FAULT).res = Fault THEN PastOutcomes ELSE {FAULT}

\* The namespace constants of lib.rs and of defs.rs by name; DNS of defs.rs
\* is built by uuid! at compile time
NamespaceConst(module, name, past) ==
    CASE name = "DNS" ->
            IF module = "defs" THEN uuid_macro(NamespaceDnsText, past)
            ELSE Ok(NAMESPACE_DNS)
      [] name = "URL" -> Ok(NAMESPACE_URL)
      [] name = "OID" -> Ok(NAMESPACE_OID)
      [] name = "X500" -> Ok(NAMESPACE_X500)

\* Offsets at which the inputs of const_hex_decode carry a hyphen: the ends,
\* the canonical offsets and one off them
HyphenPlaces == {0, 1, 8, 9, 13, 18, 23, 30, 31, 35}
MaxHyphens == 4

\* The string of length n with a hyphen at the offsets of at and the digits
\* of d, in order, everywhere else
Spread(d, at, n) ==
    [i \in 1..n |->
        IF (i - 1) \in at THEN HYPHEN
        ELSE d[i - Cardinality({j \in at : j < i - 1})]]

\* Strings of length 32 or 36 made of hex digits and hyphens, hyphens
\* anywhere, and the valid texts with one character replaced
HexInputs ==
    LET d == SimpleText(RAW, FALSE) \o SubSeq(SimpleText(RAW, TRUE), 5, 8)
    IN  {Spread(d, at, n) :
            at \in {a \in SUBSET HyphenPlaces : Cardinality(a) <= MaxHyphens},
            n \in {UUID_SIMPLE_LENGTH, UUID_STR_LENGTH}}
        \cup {[TextOf(RAW, f, up)
                    EXCEPT ![IF q = 0 THEN Len(TextOf(RAW, f, up)) ELSE q] = c] :
                f \in {"simple", "hyphenated"}, up \in BOOLEAN,
                q \in {0, 1, 2, 9, 10, 24, 32}, c \in Palette}

Namespaces == {NAMESPACE_DNS, NAMESPACE_OID, RAW}

\* b"www.widgets.com" of tests::md5
WwwWidgetsCom == <<119, 119, 119, 46, 119, 105, 100, 103, 101, 116, 115, 46, 99, 111, 109>>

\* b"test" and b"Cat" of tests::name, b"example.com" of the examples, b""
Names ==
    {<<116, 101, 115, 116>>, <<67, 97, 116>>,
     <<101, 120, 97, 109, 112, 108, 101, 46, 99, 111, 109>>, <<>>, WwwWidgetsCom}

\* Two seeds of 32 bytes for Rng::from_seed
Seeds == {[i \in 1..32 |-> 0], [i \in 1..32 |-> (7 * i) % 256]}

----------------------------------------------------------------------------
(* The calls of the binary model and the generators                        *)

\* Uuid::from_bytes_me(b)
FromBytesMe ==
    /\ pc = "start"
    /\ \E b \in BinArrays :
        /\ args' = [ctor |-> "from_bytes_me", bytes |-> b]
        /\ uuid' = from_bytes_me(b)
    /\ src' = "from_bytes_me"
    /\ pc' = "made"
    /\ UNCHANGED <<rng, call, ret>>
    /\ UNCHANGED textvars

\* Uuid::parse_me(t) for the string t drawn as g says
DoParseMe(t, g) ==
    /\ text' = t
    /\ gen' = g
    /\ src' = "parse_me"
    /\ args' = [ctor |-> "parse_me"]
    /\ res' = parse_me(t)
    /\ uuid' = res'.bytes
    /\ pc' = IF res'.tag = "Ok" THEN "made" ELSE "failed"
    /\ UNCHANGED <<prior, fmt, out, res2, rng, call, ret>>

\* parse_me of one of the four texts of a Uuid, of such a text with one
\* character replaced, or of a proper prefix of it
ParseMe ==
    /\ pc = "start"
    /\ \/ \E b \in TextSeeds, f \in Forms, up \in BOOLEAN :
            DoParseMe(TextOf(b, f, up),
                      [bytes |-> b, form |-> f, upper |-> up, mut |-> "none", at |-> 0])
       \/ \E b \in MutSeeds, f \in Forms, up \in BOOLEAN :
            \E p \in 1..Len(TextOf(b, f, up)), c \in Palette :
                /\ TextOf(b, f, up)[p] # c
                /\ DoParseMe([TextOf(b, f, up) EXCEPT ![p] = c],
                             [bytes |-> b, form |-> f, upper |-> up, mut |-> "char", at |-> p])
       \/ \E b \in MutSeeds, f \in Forms, up \in BOOLEAN :
            \E n \in 0..(Len(TextOf(b, f, up)) - 1) :
                DoParseMe(SubSeq(TextOf(b, f, up), 1, n),
                          [bytes |-> b, form |-> f, upper |-> up, mut |-> "cut", at |-> n])

\* Uuid::new_v1(timestamp, counter, node)
NewV1 ==
    /\ pc = "start"
    /\ \E ts \in U64Values, c \in U16Values, n \in Nodes :
        /\ args' = [ctor |-> "new_v1", timestamp |-> ts, counter |-> c, node |-> n]
        /\ uuid' = new_v1(ts, c, n)
    /\ src' = "new_v1"
    /\ pc' = "made"
    /\ UNCHANGED <<rng, call, ret>>
    /\ UNCHANGED textvars

\* Uuid::new_v6(timestamp, counter, node)
NewV6 ==
    /\ pc = "start"
    /\ \E ts \in U64Values, c \in U16Values, n \in Nodes :
        /\ args' = [ctor |-> "new_v6", timestamp |-> ts, counter |-> c, node |-> n]
        /\ uuid' = new_v6(ts, c, n)
    /\ src' = "new_v6"
    /\ pc' = "made"
    /\ UNCHANGED <<rng, call, ret>>
    /\ UNCHANGED textvars

\* Uuid::new_v7(timestamp, rand_a, rand_b)
NewV7 ==
    /\ pc = "start"
    /\ \E ts \in U64Values, ra \in U16Values, rb \in RandBValues :
        /\ args' = [ctor |-> "new_v7", timestamp |-> ts, rand_a |-> ra, rand_b |-> rb]
        /\ uuid' = new_v7(ts, ra, rb)
    /\ src' = "new_v7"
    /\ pc' = "made"
    /\ UNCHANGED <<rng, call, ret>>
    /\ UNCHANGED textvars

\* Uuid::new_v8(bytes)
NewV8 ==
    /\ pc = "start"
    /\ \E b \in BinArrays :
        /\ args' = [ctor |-> "new_v8", bytes |-> b]
        /\ uuid' = new_v8(b)
    /\ src' = "new_v8"
    /\ pc' = "made"
    /\ UNCHANGED <<rng, call, ret>>
    /\ UNCHANGED textvars

\* Uuid::new_v3(namespace, name)
NewV3 ==
    /\ pc = "start"
    /\ \E ns \in Namespaces, name \in Names :
        /\ args' = [ctor |-> "new_v3", namespace |-> ns, name |-> name]
        /\ uuid' = new_v3(ns, name)
    /\ src' = "new_v3"
    /\ pc' = "made"
    /\ UNCHANGED <<rng, call, ret>>
    /\ UNCHANGED textvars

\* Uuid::new_v5(namespace, name)
NewV5 ==
    /\ pc = "start"
    /\ \E ns \in Namespaces, name \in Names :
        /\ args' = [ctor |-> "new_v5", namespace |-> ns, name |-> name]
        /\ uuid' = new_v5(ns, name)
    /\ src' = "new_v5"
    /\ pc' = "made"
    /\ UNCHANGED <<rng, call, ret>>
    /\ UNCHANGED textvars

\* Uuid::new_v4_rng(&mut rng) on an Rng made by Rng::from_seed that has
\* already given out k Uuids
NewV4Rng ==
    /\ pc = "start"
    /\ \E seed \in Seeds, k \in 0..MaxPriorUuids :
        LET before == [RngFromSeed(seed) EXCEPT !.used = 16 * k] IN
        /\ args' = [ctor |-> "new_v4_rng", rng |-> before]
        /\ uuid' = new_v4_rng(before).uuid
        /\ rng' = new_v4_rng(before).rng
    /\ src' = "new_v4_rng"
    /\ pc' = "made"
    /\ UNCHANGED <<call, ret>>
    /\ UNCHANGED textvars

\* Uuid::new_v4_rng(&mut rng) once more with the Rng the last call left
NewV4RngNext ==
    /\ pc = "made"
    /\ src = "new_v4_rng"
    /\ rng.used < 16 * (MaxPriorUuids + 1)
    /\ args' = [ctor |-> "new_v4_rng", rng |-> rng]
    /\ uuid' = new_v4_rng(rng).uuid
    /\ rng' = new_v4_rng(rng).rng
    /\ UNCHANGED <<pc, src, call, ret>>
    /\ UNCHANGED textvars

\* One of the namespace constants, of lib.rs or of defs.rs
UseNamespace ==
    /\ pc = "start"
    /\ \E module \in {"lib", "defs"}, name \in {"DNS", "URL", "OID", "X500"} :
        \E past \in PastFor(NamespaceDnsText) :
            /\ src' = "namespace"
            /\ args' = [ctor |-> "namespace", module |-> module, name |-> name]
            /\ uuid' = NamespaceConst(module, name, past).bytes
            /\ pc' = IF NamespaceConst(module, name, past).tag = "Ok"
                     THEN "made" ELSE "failed"
    /\ UNCHANGED <<rng, call, ret>>
    /\ UNCHANGED textvars

\* const_hex_decode(s) for a string s of length 32 or 36
ConstHexDecode ==
    /\ pc = "start"
    /\ \E s \in HexInputs :
        \E past \in PastFor(s) :
        /\ src' = "const_hex_decode"
        /\ args' = [ctor |-> "const_hex_decode", bytes |-> s]
        /\ ret' = const_hex_decode_run(s, past)
        /\ uuid' = ret'.res.bytes
    /\ call' = "const_hex_decode"
    /\ pc' = "decoded"
    /\ UNCHANGED rng
    /\ UNCHANGED textvars

\* Uuid::nil(), Uuid::default() or Uuid::max()
CallSentinel ==
    /\ pc = "start"
    /\ \E f \in {"nil", "default", "max"} :
        /\ src' = f
        /\ args' = [ctor |-> f]
        /\ uuid' = CASE f = "nil" -> NilBytes
                      [] f = "default" -> UuidDefault
                      [] f = "max" -> max
    /\ pc' = "made"
    /\ UNCHANGED <<rng, call, ret>>
    /\ UNCHANGED textvars

\* uuid.variant(), uuid.version(), uuid.timestamp(), uuid.clock_sequence(),
\* uuid.node(), uuid.is_nil() on either kind of target, and ReprUuid's
\* variant() and version() of the same bytes
ReadFields ==
    /\ pc = "made"
    /\ call' = "fields"
    /\ ret' = [variant |-> variant(uuid), version |-> version(uuid),
               timestamp |-> timestamp(uuid),
               clock_sequence |-> clock_sequence(uuid), node |-> node(uuid),
               repr_variant |-> repr_variant(uuid),
               repr_version |-> repr_version(uuid),
               is_nil |-> [e \in Endians |-> is_nil(uuid, e)]]
    /\ pc' = "read"
    /\ UNCHANGED <<src, uuid, args, rng>>
    /\ UNCHANGED textvars

\* uuid.to_bytes(), uuid.to_bytes_me(), Uuid::from_bytes_me(uuid.to_bytes_me())
\* uuid.set_version(ver) or uuid.set_variant(ver) on a Uuid made from bytes,
\* and version() resp. variant() of the Uuid it leaves
SetTag ==
    /\ pc = "made"
    /\ src = "bytes"
    /\ \/ \E ver \in {"Nil", "Time", "Dce", "Md5", "Random", "Sha1", "Database",
                       "UnixTime", "Vendor", "Reserved"} :
            /\ call' = "set_version"
            /\ ret' = [arg |-> ver, after |-> set_version(uuid, ver),
                       read |-> version(set_version(uuid, ver))]
       \/ \E ver \in {"Ncs", "Rfc4122", "Microsoft", "Reserved"} :
            /\ call' = "set_variant"
            /\ ret' = [arg |-> ver, after |-> set_variant(uuid, ver),
                       read |-> variant(set_variant(uuid, ver))]
    /\ pc' = "read"
    /\ UNCHANGED <<src, uuid, args, rng>>
    /\ UNCHANGED textvars

ConvertMe ==
    /\ pc = "made"
    /\ call' = "me"
    /\ ret' = [bytes |-> to_bytes(uuid), bytes_me |-> to_bytes_me(uuid),
               back |-> from_bytes_me(to_bytes_me(uuid))]
    /\ pc' = "read"
    /\ UNCHANGED <<src, uuid, args, rng>>
    /\ UNCHANGED textvars

NextBin ==
    \/ FromBytes
    \/ FromBytesMe
    \/ ParseMe
    \/ NewV1
    \/ NewV6
    \/ NewV7
    \/ NewV8
    \/ NewV3
    \/ NewV5
    \/ NewV4Rng
    \/ NewV4RngNext
    \/ CallSentinel
    \/ UseNamespace
    \/ ConstHexDecode
    \/ ReadFields
    \/ SetTag
    \/ ConvertMe
    \/ CallToStr

SpecBin == Init /\ [][NextBin]_vars

----------------------------------------------------------------------------
(* Vocabulary of the properties                                            *)

IsHexDigit(c) == c \in 48..57 \/ c \in 65..70 \/ c \in 97..102

HasNonAscii(s) == \E i \in 1..Len(s) : s[i] >= 128

AcceptedLengths == {32, 36, 38, 45}

\* The 36 characters left of a text of length 36, 38 or 45 once the braces
\* or the 9 characters of the URN prefix are removed
BodyOf(s) ==
    CASE Len(s) = 45 -> SubSeq(s, 10, 45)
      [] Len(s) = 38 -> SubSeq(s, 2, 37)
      [] OTHER -> s

\* The canonical form of a text: wrapper removed, hyphens inserted at
\* offsets 8, 13, 18, 23 of the simple form, hex digits in lower case
CanonicalForm(s) ==
    LET body == IF Len(s) = 32
                THEN SubSeq(s, 1, 8) \o <<45>> \o SubSeq(s, 9, 12) \o <<45>>
                     \o SubSeq(s, 13, 16) \o <<45>> \o SubSeq(s, 17, 20) \o <<45>>
                     \o SubSeq(s, 21, 32)
                ELSE BodyOf(s)
    IN  [i \in 1..Len(body) |->
            IF body[i] \in 65..70 THEN body[i] + 32 ELSE body[i]]

\* The hex digits of a text, in order
RECURSIVE HexDigitsOf(_)
HexDigitsOf(s) ==
    IF s = <<>> THEN <<>>
    ELSE (IF IsHexDigit(Head(s)) THEN <<Head(s)>> ELSE <<>>) \o HexDigitsOf(Tail(s))

HyphenOffsets == {8, 13, 18, 23}

Formatted == pc \in {"formatted", "reparsed"}

----------------------------------------------------------------------------
(* Properties                                                              *)

\* C1: for every 16-byte array b, parsing the text to_str writes for
\* from_bytes(b) returns Ok with exactly the bytes b, never an error.
C1_ParseToStrRoundTrip ==
    (pc = "reparsed" /\ src = "bytes" /\ fmt = "to_str") => res2 = Ok(uuid)

C1_Witness ==
    /\ pc = "reparsed" /\ src = "bytes" /\ fmt = "to_str"
    /\ uuid = RAW
    /\ res2 = Ok(RAW)

\* C2: for every text s that parse accepts, to_str of the parsed value is
\* the canonical form of s (wrapper removed, hyphens inserted into the simple
\* form, hex digits lowercased), with the same 32 hex digits as s in order.
C2_ToStrOfParseIsCanonical ==
    (Formatted /\ src = "parse" /\ fmt = "to_str") =>
        /\ out = CanonicalForm(text)
        /\ HexDigitsOf(out) = HexDigitsOf(CanonicalForm(text))
        /\ Len(HexDigitsOf(BodyOf(text))) = 32

\* C3: the hyphenated (36), simple (32), braced (38) and URN (45) texts of a
\* Uuid u all parse to Ok(u), each byte from two digits, high nibble first.
C3_FourFormsParseToSameValue ==
    (src = "parse" /\ gen.mut = "none") =>
        /\ res = Ok(gen.bytes)
        /\ Len(text) = (CASE gen.form = "hyphenated" -> 36
                          [] gen.form = "simple" -> 32
                          [] gen.form = "braced" -> 38
                          [] gen.form = "urn" -> 45)

C3_Witness ==
    /\ src = "parse" /\ gen.mut = "none" /\ gen.form = "braced" /\ gen.upper
    /\ gen.bytes = RAW
    /\ res = Ok(RAW)

\* C4: parse is case-insensitive: if parse accepts s, it accepts s converted
\* to upper case and s converted to lower case (the whole string, URN prefix
\* included) and returns the same Uuid for them.
C4_ParseCaseInsensitive ==
    (pc = "recased" /\ res.tag = "Ok") => res2 = res

C4_Witness ==
    /\ pc = "recased" /\ res.tag = "Ok"
    /\ fmt = "to_uppercase"
    /\ Len(text) = 45
    /\ SubSeq(out, 1, 9) # UUID_URN
    /\ out # text
    /\ res2 = res

\* C5: for a 36-character body (given directly or after removing braces or
\* the URN prefix) parse returns Ok only if offsets 8, 13, 18, 23 hold '-'
\* and the other 32 characters are hex digits.
C5_HyphensOnlyAtTheirOffsets ==
    (src = "parse" /\ Len(text) \in {36, 38, 45} /\ res.tag = "Ok") =>
        \A i \in 0..35 :
            IF i \in HyphenOffsets THEN BodyOf(text)[i + 1] = 45
            ELSE IsHexDigit(BodyOf(text)[i + 1])

\* C6: for a 32-character input parse returns Ok exactly when all 32
\* characters are hex digits, byte i then being decoded from characters 2i
\* and 2i+1; any other character, '+' and '-' included, gives a ParseError.
C6_SimpleFormAllHex ==
    (src = "parse" /\ Len(text) = 32) =>
        /\ res.tag = "Ok" <=> \A i \in 1..32 : IsHexDigit(text[i])
        /\ res.tag = "Ok" =>
            \A i \in 0..15 :
                res.bytes[i + 1] = 16 * HexVal(text[2 * i + 1]) + HexVal(text[2 * i + 2])

\* C7: a 45-character input is accepted only if it starts with the literal
\* lowercase "urn:uuid:", a 38-character input only if it starts with '{'
\* and ends with '}'.
C7_WrapperIsLiteral ==
    (src = "parse" /\ res.tag = "Ok") =>
        /\ Len(text) = 45 => SubSeq(text, 1, 9) = UUID_URN
        /\ Len(text) = 38 => (text[1] = 123 /\ text[38] = 125)

\* C8: parse never panics: it returns Ok or ParseError for every input, and
\* ParseError for every input that has a non-ASCII character or a length
\* other than 32, 36, 38, 45.
C8_ParseTotal ==
    /\ src = "parse" =>
        /\ res.tag \in {"Ok", "Err"}
        /\ (HasNonAscii(text) \/ Len(text) \notin AcceptedLengths) => res.tag = "Err"
    /\ pc \in {"reparsed", "recased"} =>
        /\ res2.tag \in {"Ok", "Err"}
        /\ (HasNonAscii(out) \/ Len(out) \notin AcceptedLengths) => res2.tag = "Err"

C8_Witness ==
    /\ src = "parse" /\ gen.mut = "wide" /\ gen.form = "urn" /\ gen.at = 9
    /\ Len(text) = 45
    /\ text[10] \in 128..191
    /\ res = Err

\* C9: whatever the buffer held, to_str leaves '-' at offsets 8, 13, 18, 23
\* and the lowercase hex digits of bytes 0..15 elsewhere, to_str_upper the
\* same in upper case, to_urn "urn:uuid:" and then to_str's text, and
\* to_urn_upper the lowercase "urn:uuid:" and then to_str_upper's text.
C9_BufferFormats ==
    Formatted =>
        /\ fmt = "to_str" =>
            /\ Len(out) = 36
            /\ \A i \in HyphenOffsets : out[i + 1] = 45
            /\ \A i \in 0..35 \ HyphenOffsets :
                  out[i + 1] \in 48..57 \/ out[i + 1] \in 97..102
            /\ out = HyphenatedText(uuid, FALSE)
        /\ fmt = "to_str_upper" => out = HyphenatedText(uuid, TRUE)
        /\ fmt = "to_urn" => out = UUID_URN \o HyphenatedText(uuid, FALSE)
        /\ fmt = "to_urn_upper" => out = UUID_URN \o HyphenatedText(uuid, TRUE)

C9_Witness ==
    /\ pc = "formatted" /\ fmt = "to_urn_upper"
    /\ uuid = RAW
    /\ prior = [i \in 1..45 |-> 255]
    /\ out = UUID_URN \o HyphenatedText(RAW, TRUE)

\* C10: the fmt traits agree with the buffer functions: "{}" and "{:X}"
\* give to_str_upper, "{:x}" gives to_str, "{:#x}" gives to_urn and "{:#X}"
\* gives to_urn_upper (lowercase prefix, uppercase digits).
C10_TraitsAgreeWithBuffers ==
    Formatted =>
        /\ fmt \in {"{}", "{:X}"} => out = ToStrUpper(uuid, ZeroBuf)
        /\ fmt = "{:x}" => out = ToStr(uuid, ZeroBuf)
        /\ fmt = "{:#x}" => out = ToUrn(uuid, [i \in 1..45 |-> 0])
        /\ fmt = "{:#X}" => out = ToUrnUpper(uuid, [i \in 1..45 |-> 0])

C10_Witness ==
    /\ pc = "formatted" /\ fmt = "{:#X}"
    /\ uuid = RAW
    /\ out = UUID_URN \o HyphenatedText(RAW, TRUE)

----------------------------------------------------------------------------
(* Vocabulary of the properties of the binary model                        *)

\* Where each byte of the mixed-endian form comes from: time_low,
\* time_mid and time_hi_and_version reversed, bytes 8..15 in place
MePermutation == <<4, 3, 2, 1, 6, 5, 8, 7, 9, 10, 11, 12, 13, 14, 15, 16>>

Permuted(b) == [i \in 1..16 |-> b[MePermutation[i]]]

\* The bytes s[lo + 1..hi + 1] read the same in both directions
IsBytePalindrome(s, lo, hi) == \A i \in lo..hi : s[i + 1] = s[(lo + hi - i) + 1]

\* The variant that the top three bits of a byte spell
VariantOfTop3(b) ==
    LET top == b \div 32 IN
    IF top <= 3 THEN "Ncs"
    ELSE IF top <= 5 THEN "Rfc4122"
    ELSE IF top = 6 THEN "Microsoft"
    ELSE "Reserved"

\* The version that each value 0..15 of a nibble spells
VersionNames ==
    <<"Nil", "Time", "Dce", "Md5", "Random", "Sha1", "Database", "UnixTime", "Vendor",
      "Reserved", "Reserved", "Reserved", "Reserved", "Reserved", "Reserved", "Reserved">>

----------------------------------------------------------------------------
(* The binary model                                                        *)

\* C11: the mixed-endian conversions undo each other:
\* from_bytes_me(to_bytes_me(u)) = u for every Uuid u, and
\* to_bytes_me(from_bytes_me(b)) = b for every 16 bytes b.
C11_MixedEndianRoundTrip ==
    call = "me" =>
        /\ ret.back = uuid
        /\ src = "from_bytes_me" => ret.bytes_me = args.bytes

C11_Witness ==
    /\ call = "me" /\ src = "from_bytes_me"
    /\ args.bytes = RAW
    /\ uuid # RAW
    /\ ret.bytes_me = RAW
    /\ ret.back = uuid

\* C12: to_bytes_me, from_bytes_me and parse_me (against parse, failing
\* exactly when parse fails) all reverse the bytes within 0..3, 4..5 and
\* 6..7 and leave bytes 8..15 alone; so to_bytes_me(u) differs from
\* to_bytes(u) exactly when one of the three fields is not a palindrome.
C12_SamePermutationEverywhere ==
    /\ call = "me" =>
        /\ ret.bytes_me = Permuted(uuid)
        /\ ret.bytes_me # ret.bytes <=>
              ~(/\ IsBytePalindrome(uuid, 0, 3)
                /\ IsBytePalindrome(uuid, 4, 5)
                /\ IsBytePalindrome(uuid, 6, 7))
    /\ src = "from_bytes_me" => uuid = Permuted(args.bytes)
    /\ src = "parse_me" =>
        /\ res.tag = Parse(text).tag
        /\ res.tag = "Ok" => res.bytes = Permuted(Parse(text).bytes)

C12_Witness ==
    /\ call = "me" /\ src = "from_bytes_me"
    /\ args.bytes = PalArr(TRUE, FALSE, TRUE)
    /\ ret.bytes_me # ret.bytes
    /\ SubSeq(ret.bytes_me, 1, 4) = SubSeq(ret.bytes, 1, 4)

\* C13: variant() answers for every Uuid and looks only at the top three
\* bits of byte 8: 0xx is Ncs, 10x is Rfc4122, 110 is Microsoft, 111 is
\* Reserved; Uuid::variant and ReprUuid::variant give the same answer.
C13_VariantOfTopThreeBits ==
    call = "fields" =>
        /\ ret.variant = VariantOfTop3(uuid[9])
        /\ ret.repr_variant = IF ret.variant = "Rfc4122" THEN "Rfc" ELSE ret.variant

C13_Witness ==
    /\ call = "fields" /\ src = "bytes"
    /\ uuid[9] = 255
    /\ ret.variant = "Reserved"
    /\ ret.repr_variant = "Reserved"

\* C14: version() answers for every Uuid and looks only at the top four
\* bits of byte 6: 0 Nil, 1 Time, 2 Dce, 3 Md5, 4 Random, 5 Sha1,
\* 6 Database, 7 UnixTime, 8 Vendor, 9 to 15 Reserved.
C14_VersionOfTopNibble ==
    call = "fields" => ret.version = VersionNames[uuid[7] \div 16 + 1]

C14_Witness ==
    /\ call = "fields" /\ src = "bytes"
    /\ uuid[7] = 143
    /\ ret.version = "Vendor"

----------------------------------------------------------------------------
(* The generators                                                          *)

\* The version each generator writes
VersionWritten ==
    [new_v4_rng |-> "Random", new_v3 |-> "Md5", new_v5 |-> "Sha1", new_v1 |-> "Time",
     new_v6 |-> "Database", new_v7 |-> "UnixTime", new_v8 |-> "Vendor"]

Generators == DOMAIN VersionWritten

\* The hex digit of a u64 that holds bits 4j+3 .. 4j
Nib(x, j) == x[16 - j]

\* The byte that holds bits lo+7 .. lo of a u64, lo a multiple of 4
ByteAt(x, lo) == 16 * Nib(x, lo \div 4 + 1) + Nib(x, lo \div 4)

\* A u64 modulo 2^60
Mod60(x) == [x EXCEPT ![1] = 0]

\* C15: every generator tags what it returns: new_v4_rng, new_v3, new_v5,
\* new_v1, new_v6, new_v7 and new_v8 give a Uuid whose variant() is Rfc4122
\* and whose version() is Random, Md5, Sha1, Time, Database, UnixTime and
\* Vendor.
C15_GeneratorsTagOutput ==
    (call = "fields" /\ src \in Generators) =>
        /\ ret.variant = "Rfc4122"
        /\ ret.version = VersionWritten[src]

C15_Witness ==
    /\ call = "fields" /\ src = "new_v8"
    /\ args.bytes = OnesBytes
    /\ ret.variant = "Rfc4122"
    /\ ret.version = "Vendor"

\* C16: new_v1(ts, c, n) lays the fields out as RFC 4122 does: bytes 0..3
\* are bits 31..0 of ts, bytes 4..5 bits 47..32, byte 6 is 0x10 with bits
\* 59..56 below it, byte 7 bits 55..48, byte 8 is 0x80 with bits 13..8 of
\* c below it, byte 9 bits 7..0 of c, bytes 10..15 are n; bits 63..60 of
\* ts and 15..14 of c appear nowhere.
C16_NewV1Layout ==
    src = "new_v1" =>
        LET ts == args.timestamp
            c == args.counter
        IN  uuid = <<ByteAt(ts, 24), ByteAt(ts, 16), ByteAt(ts, 8), ByteAt(ts, 0),
                     ByteAt(ts, 40), ByteAt(ts, 32),
                     16 + Nib(ts, 14), ByteAt(ts, 48),
                     128 + ((c \div 256) % 64), c % 256>> \o args.node

C16_Witness ==
    /\ src = "new_v1"
    /\ args.timestamp = U64Arr(15, 1)
    /\ args.counter = 49443
    /\ uuid[7] = 16 + 2
    /\ uuid[9] = 128 + 1

\* C17: the accessors undo new_v1: timestamp() is ts mod 2^60,
\* clock_sequence() is c mod 2^14, node() is n; and for any 16 bytes
\* timestamp() is below 2^60 and clock_sequence() below 2^14.
C17_AccessorsInvertNewV1 ==
    call = "fields" =>
        /\ ret.timestamp[1] = 0
        /\ ret.clock_sequence < 16384
        /\ src = "new_v1" =>
            /\ ret.timestamp = Mod60(args.timestamp)
            /\ ret.clock_sequence = args.counter % 16384
            /\ ret.node = args.node

C17_Witness ==
    /\ call = "fields" /\ src = "new_v1"
    /\ args.timestamp = U64Arr(15, 1)
    /\ args.counter = 49443
    /\ ret.timestamp = Mod60(U64Arr(15, 1))
    /\ ret.clock_sequence = 291

\* C18: new_v6(ts, c, n) keeps the timestamp in order, most significant
\* first, and loses none of its low 60 bits: bytes 0..3 are bits 59..28 of
\* ts, bytes 4..5 bits 27..12, byte 6 is 0x60 with bits 11..8 below it,
\* byte 7 is bits 7..0, and bytes 8..15 are those of new_v1(ts, c, n).
C18_NewV6Layout ==
    src = "new_v6" =>
        LET ts == args.timestamp
        IN  uuid = <<ByteAt(ts, 52), ByteAt(ts, 44), ByteAt(ts, 36), ByteAt(ts, 28),
                     ByteAt(ts, 20), ByteAt(ts, 12),
                     96 + Nib(ts, 2), ByteAt(ts, 0)>>
                   \o SubSeq(new_v1(ts, args.counter, args.node), 9, 16)

\* The top four bits of byte 6 and the top two of byte 8 replaced by the
\* version v and by 10, every other bit of h kept
Tagged(h, v) == [h EXCEPT ![7] = 16 * v + (h[7] % 16), ![9] = 128 + (h[9] % 64)]

\* C19: new_v8(b) is b but for its tags: it differs from b at most in the
\* top four bits of byte 6, which are 1000, and the top two bits of
\* byte 8, which are 10.
C19_NewV8PassesThrough ==
    src = "new_v8" =>
        /\ \A i \in (1..16) \ {7, 9} : uuid[i] = args.bytes[i]
        /\ uuid[7] % 16 = args.bytes[7] % 16
        /\ uuid[7] \div 16 = 8
        /\ uuid[9] % 64 = args.bytes[9] % 64
        /\ uuid[9] \div 64 = 2

C19_Witness ==
    /\ src = "new_v8"
    /\ args.bytes = OnesBytes
    /\ uuid = [OnesBytes EXCEPT ![7] = 143, ![9] = 191]

\* C20: with the hash H taken as given, new_v3(ns, name) is the first 16
\* bytes of MD5(ns bytes ++ name) and new_v5(ns, name) the first 16 bytes
\* of SHA-1(ns bytes ++ name), each with the top four bits of byte 6
\* replaced by 3 resp. 5 and the top two bits of byte 8 by 10; the two
\* differ in nothing but the hash and the version written.
C20_NameBasedFromHash ==
    /\ src = "new_v3" =>
          uuid = Tagged(SubSeq(Md5(args.namespace \o args.name), 1, 16), 3)
    /\ src = "new_v5" =>
          uuid = Tagged(SubSeq(Sha1(args.namespace \o args.name), 1, 16), 5)

C20_Witness ==
    /\ src = "new_v5"
    /\ args.namespace = NAMESPACE_DNS
    /\ args.name = <<116, 101, 115, 116>>
    /\ LET h == Sha1(NAMESPACE_DNS \o <<116, 101, 115, 116>>)
       IN  /\ h[7] \div 16 # 5
           /\ uuid = Tagged(SubSeq(h, 1, 16), 5)

\* 3d813cbb-47fb-32ba-91df-831e1593ac29, the value tests::md5 expects
ReferenceUuid ==
    <<61, 129, 60, 187, 71, 251, 50, 186, 145, 223, 131, 30, 21, 147, 172, 41>>

\* 21f7f8de-8051-5b89-8680-0195ef798b6a
ReferenceNameV5Uuid ==
    <<33, 247, 248, 222, 128, 81, 91, 137, 134, 128, 1, 149, 239, 121, 139, 106>>

\* C21: new_v5(NAMESPACE_DNS, "www.widgets.com") is the reference Uuid
\* 3d813cbb-47fb-32ba-91df-831e1593ac29.
C21_NewV5IsReference ==
    (src = "new_v5" /\ args.namespace = NAMESPACE_DNS /\ args.name = WwwWidgetsCom) =>
        uuid = ReferenceUuid

\* C21, amended: it is new_v3(NAMESPACE_DNS, "www.widgets.com"), the MD5
\* generator, that gives the reference Uuid
\* 3d813cbb-47fb-32ba-91df-831e1593ac29 (its version digit is 3); new_v5
\* of the same arguments gives 21f7f8de-8051-5b89-8680-0195ef798b6a, a
\* Uuid of version Sha1, hence another one.
C21_NewV3IsReference ==
    /\ (src = "new_v3" /\ args.namespace = NAMESPACE_DNS /\ args.name = WwwWidgetsCom) =>
          uuid = ReferenceUuid
    /\ (src = "new_v5" /\ args.namespace = NAMESPACE_DNS /\ args.name = WwwWidgetsCom) =>
          /\ uuid = ReferenceNameV5Uuid
          /\ uuid # ReferenceUuid
          /\ uuid[7] \div 16 = 5

C21_Witness ==
    /\ src = "new_v3"
    /\ args.namespace = NAMESPACE_DNS
    /\ args.name = WwwWidgetsCom
    /\ uuid = ReferenceUuid

----------------------------------------------------------------------------
(* The sentinels and the constants                                         *)

\* "00000000-0000-0000-0000-000000000000"
NilText == [i \in 1..36 |-> IF i - 1 \in HyphenOffsets THEN 45 ELSE 48]

\* "ffffffff-ffff-ffff-ffff-ffffffffffff"
MaxText == [i \in 1..36 |-> IF i - 1 \in HyphenOffsets THEN 45 ELSE 102]

\* C22: is_nil(u) is true exactly when all 16 bytes of u are zero, whatever
\* the byte order of the target; nil() is that value, nil().is_nil() is
\* true, Uuid::default() is nil(), and to_str(nil()) is
\* "00000000-0000-0000-0000-000000000000".
C22_NilIsAllZero ==
    /\ call = "fields" =>
          \A e \in Endians : ret.is_nil[e] <=> (\A i \in 1..16 : uuid[i] = 0)
    /\ src = "nil" =>
          /\ \A i \in 1..16 : uuid[i] = 0
          /\ call = "fields" => \A e \in Endians : ret.is_nil[e]
          /\ (pc = "formatted" /\ fmt = "to_str") => out = NilText
    /\ src = "default" => uuid = NilBytes

C22_Witness ==
    /\ src = "nil"
    /\ pc = "formatted" /\ fmt = "to_str"
    /\ prior = [i \in 1..36 |-> 255]
    /\ out = NilText

\* C23: max() is the all-one sentinel: each of its 16 bytes is 0xFF, so its
\* variant is Reserved and its text is
\* "ffffffff-ffff-ffff-ffff-ffffffffffff".
C23_MaxIsAllOnes ==
    src = "max" =>
        /\ uuid = OnesBytes
        /\ call = "fields" => ret.variant = "Reserved"
        /\ (pc = "formatted" /\ fmt = "to_str") => out = MaxText

\* Byte 3 of the namespace constant of that name
NamespaceByte3(name) ==
    CASE name = "DNS" -> 16 [] name = "URL" -> 17 [] name = "OID" -> 18
      [] name = "X500" -> 20

\* C24: each of the four namespace constants, of lib.rs and of defs.rs, is
\* parse("6ba7b810-9dad-11d1-80b4-00c04fd430c8") with byte 3 set to 0x10
\* (DNS), 0x11 (URL), 0x12 (OID), 0x14 (X500), every other byte the same;
\* the DNS constant uuid! builds from the string is the one built from the
\* byte array.
C24_NamespaceConstants ==
    src = "namespace" =>
        /\ pc # "failed"
        /\ Parse(NamespaceDnsText).tag = "Ok"
        /\ uuid = [Parse(NamespaceDnsText).bytes EXCEPT ![3 + 1] = NamespaceByte3(args.name)]
        /\ (args.module = "defs" /\ args.name = "DNS") => uuid = NAMESPACE_DNS

C24_Witness ==
    /\ src = "namespace" /\ args.module = "defs" /\ args.name = "DNS"
    /\ pc = "made"
    /\ uuid = NAMESPACE_DNS

----------------------------------------------------------------------------
(* const_hex_decode                                                        *)

\* C28: const_hex_decode never reads outside its input: for an input of
\* length 32 or 36, any characters, hyphens anywhere, every unchecked read
\* at i + 1 has i + 1 < len, and every write to out has an index below 16.
C28_ReadsStayInside ==
    call = "const_hex_decode" =>
        /\ \A k \in ret.reads : k < Len(args.bytes)
        /\ \A k \in ret.writes : k < 16

\* C29: for an ASCII string s of length 32 or 36, const_hex_decode(s) is
\* Ok(b) exactly when parse(s) is Ok(u), and then b is u.to_bytes(); it is
\* Ok only when exactly 32 hex digits were decoded into all 16 bytes of out.
C29_DecodeAgreesWithParse ==
    call = "const_hex_decode" =>
        /\ (ret.res.tag = "Ok") <=> (Parse(args.bytes).tag = "Ok")
        /\ ret.res.tag = "Ok" =>
              /\ ret.res.bytes = to_bytes(Parse(args.bytes).bytes)
              /\ ret.pairs = 16
              /\ ret.i_out = 16

----------------------------------------------------------------------------
(* The tag setters                                                         *)

\* The number of leading bits of byte 8 that encode a variant
VariantBits(w) ==
    CASE w = "Ncs" -> 1 [] w = "Rfc4122" -> 2 [] w = "Microsoft" -> 3
      [] w = "Reserved" -> 3

\* C25: set_version(v) changes only the top four bits of byte 6, and
\* version() of the result is v, for every Version v; set_variant(w)
\* changes only the leading bits of byte 8 that encode w (one for Ncs, two
\* for Rfc4122, three for Microsoft and Reserved), and variant() of the
\* result is w; every other bit is as it was.
C25_SettersTouchOnlyTheirBits ==
    /\ call = "set_version" =>
          /\ \A i \in (1..16) \ {6 + 1} : ret.after[i] = uuid[i]
          /\ ret.after[6 + 1] % 16 = uuid[6 + 1] % 16
          /\ ret.read = ret.arg
    /\ call = "set_variant" =>
          /\ \A i \in (1..16) \ {8 + 1} : ret.after[i] = uuid[i]
          /\ ret.after[8 + 1] % (2 ^ (8 - VariantBits(ret.arg)))
                = uuid[8 + 1] % (2 ^ (8 - VariantBits(ret.arg)))
          /\ ret.read = ret.arg

C25_Witness ==
    /\ call = "set_variant" /\ ret.arg = "Microsoft"
    /\ uuid = OnesBytes
    /\ ret.after = [OnesBytes EXCEPT ![8 + 1] = 223]
    /\ ret.read = "Microsoft"

----------------------------------------------------------------------------
(* Rng                                                                     *)

\* The Uuid the k-th call of new_v4_rng returns, k >= 1, when the calls
\* are made one after the other with the Rng r
RECURSIVE NthUuid(_, _)
NthUuid(r, k) ==
    IF k <= 1 THEN new_v4_rng(r).uuid ELSE NthUuid(new_v4_rng(r).rng, k - 1)

\* C26: an Rng is a function of its seed and of the Uuids generated with
\* it: the k-th Uuid of new_v4_rng is the k-th Uuid of any other Rng made
\* from the same seed; a call consumes exactly the next 16 bytes of the
\* stream and never reseeds, and but for the four version bits and the two
\* variant bits the Uuid is those 16 bytes.
C26_RngDeterministic ==
    src = "new_v4_rng" =>
        /\ rng.seed = args.rng.seed
        /\ rng.used = args.rng.used + 16
        /\ uuid = NthUuid(RngFromSeed(rng.seed), rng.used \div 16)
        /\ LET block == ChaChaBlock(rng.seed, args.rng.used \div 64)
                stream == [i \in 1..16 |-> block[(args.rng.used % 64) + i]]
            IN  /\ \A i \in (1..16) \ {6 + 1, 8 + 1} : uuid[i] = stream[i]
                /\ uuid[6 + 1] % 16 = stream[6 + 1] % 16
                /\ uuid[8 + 1] % 64 = stream[8 + 1] % 64

C26_Witness ==
    /\ src = "new_v4_rng"
    /\ args.rng.used = 16 /\ rng.used = 32
    /\ rng.seed = [i \in 1..32 |-> 0]
    \* bdd219b8-a08d-4d1a-a836-efcc8b770dc7
    /\ uuid = <<189, 210, 25, 184, 160, 141, 77, 26,
               168, 54, 239, 204, 139, 119, 13, 199>>

----------------------------------------------------------------------------
(* The accessors on version 6                                              *)

\* C27: the accessors undo new_v6: for u = new_v6(ts, c, n), u.timestamp()
\* is ts mod 2^60, u.clock_sequence() is c mod 2^14 and u.node() is n;
\* timestamp() reads the fields in the order version Database keeps them.
C27_AccessorsInvertNewV6 ==
    (call = "fields" /\ src = "new_v6") =>
        /\ ret.timestamp = Mod60(args.timestamp)
        /\ ret.clock_sequence = args.counter % 16384
        /\ ret.node = args.node

====
